---- MODULE Spec2Model ----
(***************************************************************************)
(* HVAC fleet telemetry simulator (src/index.js).                          *)
(*                                                                         *)
(* Two specifications share this module:                                   *)
(*   Spec / FairSpec  the event loop: the setInterval callback of main,    *)
(*                    reportAllSystems suspended at its awaited POSTs,     *)
(*                    the SIGINT handler;                                  *)
(*   SpecTelemetry    generateTelemetry applied to a vector of             *)
(*                    Math.random() draws.                                 *)
(*                                                                         *)
(* Numbers: a Math.random() draw is k / RandDen for k in 0 .. RandDen-1;   *)
(* JavaScript Numbers are carried exactly as integers in units of          *)
(* 1 / Unit (Unit = 2 * RandDen, so that 0.5 is a whole number of units).  *)
(* Values that went through toFixed(1) are carried in tenths.              *)
(***************************************************************************)
EXTENDS Integers, Sequences, FiniteSets

\* ---------------------------------------------------------------- bounds
\* largest fleet size tried for NUM_HVAC_SYSTEMS
MaxSystems == 2
\* largest cycle limit tried for SIMULATION_DURATION_MINUTES
MaxCycles == 2
\* timer ticks beyond the largest cycle limit that the model lets fire
ExtraTicks == 1
\* resolution of a Math.random() draw
RandDen == 6

MaxTicks == MaxCycles + ExtraTicks
Unit == 2 * RandDen

VARIABLES
    numSystems,     \* NUM_HVAC_SYSTEMS
    duration,       \* SIMULATION_DURATION_MINUTES, 0 for null
    apiEndpoint,    \* API_ENDPOINT is set (truthy)
    hvacSystems,    \* main's hvacSystems
    minutesRun,     \* main's minutesRun
    intervalId,     \* TRUE while the interval timer is scheduled
    exited,         \* process.exit has been called
    exitCode,       \* its argument, -1 before
    exitBy,         \* "none", "limit" or "sigint"
    ticks,          \* timer callbacks started so far
    passes,         \* callbacks suspended at `await axios.post`
    headers,        \* cycle numbers printed by the header lines
    readings,       \* generateTelemetry calls made by reportAllSystems
    posted,         \* axios.post calls issued
    succeeded,      \* "sent successfully" lines
    warnings,       \* "Failed to send" lines
    draws,          \* SpecTelemetry: the Math.random() draws of one call
    telemetry       \* SpecTelemetry: the reading returned

cfgVars == <<numSystems, duration, apiEndpoint>>
loopVars == <<hvacSystems, minutesRun, intervalId, exited, exitCode, exitBy,
              ticks, passes, headers, readings, posted, succeeded, warnings>>
telVars == <<draws, telemetry>>
vars == <<cfgVars, loopVars, telVars>>

NoReading == [status |-> "none"]
NoDraws == [isCooling |-> 0, isHeating |-> 0, returnTemp |-> 0, offset |-> 0,
            returnJitter |-> 0, supplyJitter |-> 0, current |-> 0,
            powerConsumption |-> 0, airFlow |-> 0]

\* ------------------------------------------------------ fleet generation
\* uuid's v4(): the n-th call returns a token no other call returns
uuidv4(n) == <<"uuid", n>>

generateHVACSystemsDuplicateId(count) ==
    [i \in 1..count |-> [id |-> uuidv4(1), name |-> i]]

\* generateHVACSystems(count): one push per i, a fresh id and name HVAC-(i+1)
generateHVACSystems(count) ==
    [i \in 1..count |-> [id |-> uuidv4(i), name |-> i]]

\* ------------------------------------------------------------- telemetry
\* Math.random(): the draw k as a Number in [0, 1), in units
Random(k) == 2 * k

\* line 48: Math.random() > 0.3
isCooling(d) == 10 * Random(d.isCooling) > 3 * Unit

\* line 49: !isCooling && Math.random() > 0.7
isHeating(d) == ~isCooling(d) /\ 10 * Random(d.isHeating) > 7 * Unit

isIdleInverted(d) == isCooling(d) \/ isHeating(d)

\* line 50: !isCooling && !isHeating
isIdle(d) == ~isCooling(d) /\ ~isHeating(d)

\* line 53: 20 + Math.random() * 10
baseReturnTemp(d) == 20 * Unit + Random(d.returnTemp) * 10

\* lines 57 and 59: 5 + Math.random() * 3
tempOffset(d) == 5 * Unit + Random(d.offset) * 3

\* lines 54-60: supplyTemp before the fluctuation
baseSupplyTemp(d) ==
    IF isCooling(d) THEN baseReturnTemp(d) - tempOffset(d)
    ELSE IF isHeating(d) THEN baseReturnTemp(d) + tempOffset(d)
    ELSE baseReturnTemp(d)

fluctuationDoubled(k) == (Random(k) - Unit \div 2) * 4

\* lines 63-64: (Math.random() - 0.5) * 2
fluctuation(k) == (Random(k) - Unit \div 2) * 2

\* lines 72-73: parseFloat(x.toFixed(1)), in tenths; toFixed rounds to the
\* nearest tenth and takes the larger magnitude on a tie
toFixed1(x) ==
    IF x >= 0 THEN (20 * x + Unit) \div (2 * Unit)
    ELSE -((20 * (-x) + Unit) \div (2 * Unit))

\* line 70
statusOf(d) ==
    IF isCooling(d) THEN "cooling" ELSE IF isHeating(d) THEN "heating" ELSE "idle"

\* lines 46-89: the fields of the reading that depend on the operating mode,
\* and the device reference
generateTelemetry(hvacSystem, d) ==
    [ systemId |-> hvacSystem.id,
      systemName |-> hvacSystem.name,
      status |-> statusOf(d),
      temperatures |->
        [ return |-> toFixed1(baseReturnTemp(d) + fluctuation(d.returnJitter)),
          supply |-> toFixed1(baseSupplyTemp(d) + fluctuation(d.supplyJitter)) ],
      power |->
        [ current |-> IF isIdle(d) THEN 2 * Unit + Random(d.current) * 3
                      ELSE 10 * Unit + Random(d.current) * 15,
          powerConsumption |->
                      IF isIdle(d) THEN Unit \div 2 + Random(d.powerConsumption)
                      ELSE 3 * Unit + Random(d.powerConsumption) * 7 ],
      airFlow |-> IF isIdle(d) THEN 0 ELSE 1000 * Unit + Random(d.airFlow) * 2000 ]

Draw == 0 .. RandDen - 1

\* the draws that decide the temperatures, the others held at 0
TemperatureDraws ==
    { [NoDraws EXCEPT !.isCooling = c, !.isHeating = h, !.returnTemp = r,
                      !.offset = o, !.returnJitter = jr, !.supplyJitter = js] :
        c \in Draw, h \in Draw, r \in Draw, o \in Draw, jr \in Draw, js \in Draw }

\* the draws that decide power and air flow, the others held at 0
PowerDraws ==
    { [NoDraws EXCEPT !.isCooling = c, !.isHeating = h, !.current = i,
                      !.powerConsumption = p, !.airFlow = a] :
        c \in Draw, h \in Draw, i \in Draw, p \in Draw, a \in Draw }

\* ------------------------------------------------------------ event loop
\* lines 113-130: the state main leaves behind, for each configuration
Init ==
    /\ numSystems \in 1 .. MaxSystems
    /\ duration \in 0 .. MaxCycles
    /\ apiEndpoint \in BOOLEAN
    /\ hvacSystems = generateHVACSystems(numSystems)
    /\ minutesRun = 0
    /\ intervalId = TRUE
    /\ exited = FALSE
    /\ exitCode = -1
    /\ exitBy = "none"
    /\ ticks = 0
    /\ passes = {}
    /\ headers = << >>
    /\ readings = 0
    /\ posted = 0
    /\ succeeded = 0
    /\ warnings = 0
    /\ draws = NoDraws
    /\ telemetry = NoReading

\* line 123: SIMULATION_DURATION_MINUTES && minutesRun >= SIMULATION_DURATION_MINUTES
LimitReached(m) == duration # 0 /\ m >= duration

\* lines 122-127: what the callback does once `await reportAllSystems` returns
Finish ==
    /\ minutesRun' = minutesRun + 1
    /\ IF LimitReached(minutesRun + 1)
       THEN /\ intervalId' = FALSE
            /\ exited' = TRUE
            /\ exitCode' = 0
            /\ exitBy' = "limit"
       ELSE UNCHANGED <<intervalId, exited, exitCode, exitBy>>

\* lines 118-128: the timer fires and the callback runs up to its first
\* suspension. With a sink that is the first device's `await axios.post`
\* (line 103); without one reportAllSystems never suspends, and the callback's
\* own await resumes in a microtask before any other timer or signal.
Tick ==
    /\ ~exited
    /\ intervalId
    /\ ticks < MaxTicks
    /\ ticks' = ticks + 1
    /\ headers' = Append(headers, minutesRun + 1)
    /\ IF apiEndpoint /\ Len(hvacSystems) > 0
       THEN /\ readings' = readings + 1
            /\ posted' = posted + 1
            /\ passes' = passes \cup {[tick |-> ticks + 1, idx |-> 1]}
            /\ UNCHANGED <<minutesRun, intervalId, exited, exitCode, exitBy>>
       ELSE /\ readings' = readings + Len(hvacSystems)
            /\ UNCHANGED <<posted, passes>>
            /\ Finish
    /\ UNCHANGED <<cfgVars, hvacSystems, succeeded, warnings, telVars>>

\* lines 93-109 and 122-127: the pass p goes on after its POST has settled:
\* the next device's reading and POST, or the end of the pass
Resume(p) ==
    IF p.idx < Len(hvacSystems)
    THEN /\ readings' = readings + 1
         /\ posted' = posted + 1
         /\ passes' = (passes \ {p}) \cup {[p EXCEPT !.idx = p.idx + 1]}
         /\ UNCHANGED <<minutesRun, intervalId, exited, exitCode, exitBy>>
    ELSE /\ passes' = passes \ {p}
         /\ UNCHANGED <<readings, posted>>
         /\ Finish

\* lines 103-104: the POST of pass p resolves
PostSucceed(p) ==
    /\ ~exited
    /\ p \in passes
    /\ succeeded' = succeeded + 1
    /\ Resume(p)
    /\ UNCHANGED <<cfgVars, hvacSystems, ticks, headers, warnings, telVars>>

PostFailRetry(p) ==
    /\ ~exited
    /\ p \in passes
    /\ warnings' = warnings + 1
    /\ posted' = posted + 1
    /\ UNCHANGED <<cfgVars, hvacSystems, minutesRun, intervalId, exited, exitCode,
                   exitBy, ticks, passes, headers, readings, succeeded, telVars>>

PostFailAbort(p) ==
    /\ ~exited
    /\ p \in passes
    /\ passes' = passes \ {p}
    /\ UNCHANGED <<cfgVars, hvacSystems, minutesRun, intervalId, exited, exitCode,
                   exitBy, ticks, headers, readings, posted, succeeded, warnings,
                   telVars>>

\* lines 103-107: the POST of pass p rejects and the catch logs it
PostFail(p) ==
    /\ ~exited
    /\ p \in passes
    /\ warnings' = warnings + 1
    /\ Resume(p)
    /\ UNCHANGED <<cfgVars, hvacSystems, ticks, headers, succeeded, telVars>>

SigintClearsTimerOnly ==
    /\ ~exited
    /\ exitBy = "none"
    /\ intervalId' = FALSE
    /\ exitBy' = "sigint"
    /\ UNCHANGED <<cfgVars, hvacSystems, minutesRun, exited, exitCode, ticks,
                   passes, headers, readings, posted, succeeded, warnings, telVars>>

\* lines 134-137: the SIGINT handler
Sigint ==
    /\ ~exited
    /\ exited' = TRUE
    /\ exitCode' = 0
    /\ exitBy' = "sigint"
    /\ UNCHANGED <<cfgVars, hvacSystems, minutesRun, intervalId, ticks, passes,
                   headers, readings, posted, succeeded, warnings, telVars>>

PostSucceeds == \E p \in passes : PostSucceed(p)
PostFails == \E p \in passes : PostFail(p)

Next == Tick \/ PostSucceeds \/ PostFails \/ Sigint

Spec == Init /\ [][Next]_vars

\* the timer keeps firing and every POST settles (resolves or rejects)
FairSpec ==
    /\ Spec
    /\ WF_vars(Tick)
    /\ WF_vars(PostSucceeds \/ PostFails)

\* --------------------------------------------- generateTelemetry, applied
InitTelemetry ==
    /\ numSystems = 1
    /\ duration = 0
    /\ apiEndpoint = FALSE
    /\ hvacSystems = generateHVACSystems(numSystems)
    /\ minutesRun = 0
    /\ intervalId = TRUE
    /\ exited = FALSE
    /\ exitCode = -1
    /\ exitBy = "none"
    /\ ticks = 0
    /\ passes = {}
    /\ headers = << >>
    /\ readings = 0
    /\ posted = 0
    /\ succeeded = 0
    /\ warnings = 0
    /\ draws \in TemperatureDraws \cup PowerDraws
    /\ telemetry = NoReading

\* line 94: const telemetry = generateTelemetry(system)
GenerateTelemetry ==
    /\ telemetry = NoReading
    /\ telemetry' = generateTelemetry(hvacSystems[1], draws)
    /\ UNCHANGED <<cfgVars, loopVars, draws>>

NextTelemetry == GenerateTelemetry

SpecTelemetry == InitTelemetry /\ [][NextTelemetry]_vars

\* ================================================================ claims
\* the POSTs outstanding, each named by the pass that issued it and its device
InFlight == { <<p.tick, p.idx>> : p \in passes }

\* C1: at most one reporting pass over the fleet is in progress at any time,
\* a tick never starting a pass while an earlier one awaits its POSTs.
C1_CyclesNeverOverlap == Cardinality(passes) <= 1

\* C2: with a sink configured at most one POST is in flight, so at most one
\* is abandoned when the process terminates.
C2_AtMostOnePostInFlight ==
    apiEndpoint => Cardinality(InFlight) <= 1

\* C3: a run that ends by the cycle limit L has generated exactly N * L
\* readings, with or without a sink.
C3_ExactlyNTimesLReadings ==
    exitBy = "limit" => readings = numSystems * duration

\* C10: the k-th cycle header printed carries the number k.
C10_HeadersNumberedInOrder ==
    \A k \in 1 .. Len(headers) : headers[k] = k

\* C4: a failed delivery is logged once and not retried, the pass goes on
\* with the next device or ends with the cycle counter incremented, and a run
\* ending at the cycle limit has completed all L cycles with exit status 0,
\* every delivery of those cycles having been attempted.
C4_FailedDeliveryNeverAborts ==
    [][ /\ warnings' # warnings =>
            /\ warnings' = warnings + 1
            /\ \E p \in passes :
                \/ /\ p.idx < numSystems
                   /\ passes' = (passes \ {p}) \cup {[p EXCEPT !.idx = p.idx + 1]}
                   /\ readings' = readings + 1
                   /\ minutesRun' = minutesRun
                \/ /\ p.idx = numSystems
                   /\ passes' = passes \ {p}
                   /\ readings' = readings
                   /\ minutesRun' = minutesRun + 1
        /\ posted' <= readings'
        /\ posted' = succeeded' + warnings' + Cardinality(passes')
        /\ exitBy' = "limit" =>
            /\ exitCode' = 0
            /\ minutesRun' = duration
            /\ apiEndpoint => succeeded' + warnings' >= numSystems * duration
      ]_vars

\* C4 witness: every sink call of a two-device, two-cycle run failed and the
\* run still ended at the cycle limit.
C4_Witness ==
    /\ apiEndpoint
    /\ numSystems >= 2
    /\ duration >= 2
    /\ exitBy = "limit"
    /\ succeeded = 0
    /\ warnings >= numSystems * duration

\* C5: SIGINT is accepted in every state before exit, ends the process with
\* status 0 without touching the cycle counter, and after it no cycle begins,
\* no reading is generated or posted and no pass completes.
C5_SigintTerminatesAtOnce ==
    [][ /\ ~exited => ENABLED Sigint
        /\ (exitBy = "none" /\ exitBy' = "sigint") =>
            /\ exited'
            /\ exitCode' = 0
            /\ minutesRun' = minutesRun
            /\ passes' = passes
        /\ exitBy = "sigint" =>
            /\ exited
            /\ UNCHANGED <<minutesRun, headers, readings, posted, passes,
                           succeeded, warnings, ticks>>
      ]_vars

\* C5 witness: interrupted with no cycle limit while a pass awaits a POST.
C5_Witness ==
    /\ duration = 0
    /\ exitBy = "sigint"
    /\ exited
    /\ exitCode = 0
    /\ passes # {}

\* C6: with a cycle limit configured the process eventually terminates with
\* status 0, whether or not a sink is configured and whether its calls
\* succeed or fail, given that ticks keep firing and every call returns.
C6_TerminatesWithCycleLimit ==
    (duration # 0) ~> (exited /\ exitCode = 0)

\* C6 witness: terminated by the cycle limit with a sink of which some calls
\* failed and some succeeded.
C6_Witness ==
    /\ apiEndpoint
    /\ duration >= 2
    /\ exitBy = "limit"
    /\ exitCode = 0
    /\ warnings > 0
    /\ succeeded > 0

\* C9: the fleet has exactly N devices with pairwise distinct identifiers and
\* no step of the run changes it.
C9_FleetDistinctAndImmutable ==
    [][ /\ Len(hvacSystems) = numSystems
        /\ \A i, j \in 1 .. Len(hvacSystems) :
              i # j => hvacSystems[i].id # hvacSystems[j].id
        /\ hvacSystems' = hvacSystems
      ]_vars

\* C9 witness: a fleet of at least two devices after a completed cycle.
C9_Witness ==
    /\ Len(hvacSystems) >= 2
    /\ hvacSystems[1].id # hvacSystems[2].id
    /\ minutesRun >= 1

SupplyMinusReturn == telemetry.temperatures.supply - telemetry.temperatures.return

\* C8 as stated: cooling gives supply <= return and supply - return in
\* [-9,-4]; heating gives supply - return in [4,9].
C8_DeltaWithinOneDegreeOfOffset ==
    telemetry # NoReading =>
        /\ telemetry.status = "cooling" =>
            /\ SupplyMinusReturn <= 0
            /\ -90 <= SupplyMinusReturn /\ SupplyMinusReturn <= -40
        /\ telemetry.status = "heating" =>
            (40 <= SupplyMinusReturn /\ SupplyMinusReturn <= 90)

\* C8 amended: the two fluctuations are independent, so they widen the offset
\* by up to 2 degrees: cooling gives supply <= return and supply - return in
\* [-10,-3]; heating gives supply - return in [3,10].
C8_DeltaWithinTwoDegreesOfOffset ==
    telemetry # NoReading =>
        /\ telemetry.status = "cooling" =>
            /\ SupplyMinusReturn <= 0
            /\ -100 <= SupplyMinusReturn /\ SupplyMinusReturn <= -30
        /\ telemetry.status = "heating" =>
            (30 <= SupplyMinusReturn /\ SupplyMinusReturn <= 100)

\* C8 witness: a cooling reading whose supply is less than 4 degrees below
\* its return.
C8_Witness ==
    /\ telemetry # NoReading
    /\ telemetry.status = "cooling"
    /\ SupplyMinusReturn > -40
    /\ SupplyMinusReturn <= -30

====
